---- MODULE Spec2Model ----
(***************************************************************************)
(* A model of Xliff_Comparison_Tool.py: the command line entry point,      *)
(* parse_xliff, and main (alignment of the two id sets, the three sorted   *)
(* groups of report rows, and the final write of the report).              *)
(*                                                                         *)
(* Strings that the program inspects character by character (the ids) are  *)
(* sequences of one-character strings; texts that it only copies are       *)
(* strings.  Standard output is the set of the kinds of message printed.   *)
(***************************************************************************)
EXTENDS Integers, Sequences, FiniteSets, TLC

VARIABLES pc, argv, file1, file2, output_file, data1, data2, unparseable,
          common_ids, missing_in_file2, missing_in_file1, html_parts,
          stdout, report, exit_status, exception, caught,
          p_file, p_include_source, p_ret

vars == <<pc, argv, file1, file2, output_file, data1, data2, unparseable,
          common_ids, missing_in_file2, missing_in_file1, html_parts,
          stdout, report, exit_status, exception, caught,
          p_file, p_include_source, p_ret>>

(***************************************************************************)
(* Bounds and input universes                                              *)
(***************************************************************************)
\* largest number of trans-unit elements in an input file
MaxUnits == 3

\* the ids that occur in the input files: "t1", "t2", "t10", "a1", "al", "b"
Ids == { <<"t", "1">>, <<"t", "2">>, <<"t", "1", "0">>, <<"a", "1">>,
         <<"a", "l">>, <<"b">> }

\* the value of trans_unit.get('id') for a unit whose id is absent or empty
NoId == << >>

SourceTexts == {"Hello"}
TargetTexts == {"", "Bonjour"}

\* a trans-unit element, with the texts of its source and target children
Units == [id : Ids \cup {NoId}, source : SourceTexts, target : TargetTexts]

RECURSIVE SeqsUpTo(_, _)
SeqsUpTo(S, n) ==
    IF n = 0 THEN { << >> }
    ELSE LET shorter == SeqsUpTo(S, n - 1)
         IN  shorter \cup { Append(s, x) : s \in { t \in shorter : Len(t) = n - 1 }, x \in S }

\* what a path can lead to: a well-formed document, or nothing ET.parse accepts
Files == { [ok |-> TRUE, units |-> u] : u \in SeqsUpTo(Units, MaxUnits) }
         \cup { [ok |-> FALSE, units |-> << >>] }

(***************************************************************************)
(* debug_print                                                             *)
(***************************************************************************)
DEBUG == TRUE

\* standard output after debug_print(msg)
debug_print(out, msg) == IF DEBUG THEN out \cup {msg} ELSE out

(***************************************************************************)
(* parse_xliff                                                             *)
(***************************************************************************)
EmptyDict == [x \in {} |-> ""]

\* data[k] = v
SetItem(data, k, v) == [x \in (DOMAIN data) \cup {k} |-> IF x = k THEN v ELSE data[x]]

\* parse_units with "break" in the place of "continue"
RECURSIVE parse_units_break(_, _, _, _, _)
parse_units_break(units, i, include_source, data, out) ==
    IF i > Len(units) THEN [data |-> data, out |-> out]
    ELSE LET tu == units[i] IN
         IF tu.id = NoId
         THEN [data |-> data,
               out |-> debug_print(out, "DEBUG: Found trans-unit without id, skipping")]
         ELSE parse_units_break(units, i + 1, include_source,
                                SetItem(data, tu.id,
                                        IF include_source
                                        THEN [source |-> tu.source, target |-> tu.target]
                                        ELSE tu.target),
                                debug_print(out, "DEBUG: trans-unit id"))

\* the loop over trans_units, from unit i on: the dictionary and the messages
RECURSIVE parse_units(_, _, _, _, _)
parse_units(units, i, include_source, data, out) ==
    IF i > Len(units) THEN [data |-> data, out |-> out]
    ELSE LET tu == units[i] IN
         IF tu.id = NoId
         THEN parse_units(units, i + 1, include_source, data,
                          debug_print(out, "DEBUG: Found trans-unit without id, skipping"))
         ELSE parse_units(units, i + 1, include_source,
                          SetItem(data, tu.id,
                                  IF include_source
                                  THEN [source |-> tu.source, target |-> tu.target]
                                  ELSE tu.target),
                          debug_print(out, "DEBUG: trans-unit id"))

\* parse_xliff(file, include_source): the returned dictionary, the messages
\* printed, and whether ET.parse failed
parse_xliff(file, include_source) ==
    LET out0 == debug_print({}, "DEBUG: Parsing file") IN
    IF ~file.ok
    THEN [data |-> EmptyDict,
          out |-> debug_print(out0, "ERROR: Could not parse file"),
          failed |-> TRUE]
    ELSE LET out1 == debug_print(debug_print(out0, "DEBUG: Root tag"), "DEBUG: Found trans-unit elements")
             r == parse_units(file.units, 1, include_source, EmptyDict, out1)
         IN  [data |-> r.data, out |-> r.out, failed |-> FALSE]

\* every result parse_xliff can return for the reference file / the comparison file
ParseResults1 == { parse_xliff(f, TRUE) : f \in Files }
ParseResults2 == { parse_xliff(f, FALSE) : f \in Files }

(***************************************************************************)
(* The sort key  lambda x: int(x[1:]) if x[1:].isdigit() else x            *)
(***************************************************************************)
\* the characters of the ids for which str.isdigit() is true (the ids are
\* ASCII: every such character is a decimal digit, which int() reads)
DigitChars == {"0", "1", "2"}

DigitVal(c) == CASE c = "0" -> 0 [] c = "1" -> 1 [] c = "2" -> 2

\* ord(c) for the characters of the ids
Ord(c) == CASE c = "0" -> 48 [] c = "1" -> 49 [] c = "2" -> 50
            [] c = "a" -> 97 [] c = "b" -> 98 [] c = "l" -> 108 [] c = "t" -> 116

\* s.isdigit(): false for the empty string
isdigit(s) == Len(s) > 0 /\ \A i \in 1..Len(s) : s[i] \in DigitChars

\* int(s) for a string of decimal digits
RECURSIVE int(_)
int(s) == IF Len(s) = 0 THEN 0
          ELSE 10 * int(SubSeq(s, 1, Len(s) - 1)) + DigitVal(s[Len(s)])

\* x[1:]
Suffix(x) == SubSeq(x, 2, Len(x))

\* the key  lambda x: x
KeyIsInt_never(x) == FALSE

\* the key of x is an int (otherwise it is the str x itself)
KeyIsInt(x) == isdigit(Suffix(x))

KeyInt(x) == int(Suffix(x))

\* a < b for two str, by code points
RECURSIVE StrLess(_, _)
StrLess(a, b) ==
    IF Len(b) = 0 THEN FALSE
    ELSE IF Len(a) = 0 THEN TRUE
    ELSE IF Ord(Head(a)) # Ord(Head(b)) THEN Ord(Head(a)) < Ord(Head(b))
    ELSE StrLess(Tail(a), Tail(b))

\* key(x) < key(y), for two keys of the same type
KeyLess(x, y) ==
    IF KeyIsInt(x) THEN KeyInt(x) < KeyInt(y) ELSE StrLess(x, y)

\* comparing an int key with a str key raises TypeError; a sort of two or
\* more elements compares every pair that ends up adjacent
SortTypeError(e) ==
    \E i, j \in 1..Len(e) : KeyIsInt(e[i]) /\ ~KeyIsInt(e[j])

\* s is sorted; x goes behind every element whose key is not greater (stable)
RECURSIVE InsertStable(_, _)
InsertStable(s, x) ==
    IF Len(s) = 0 THEN <<x>>
    ELSE IF KeyLess(x, s[Len(s)])
         THEN Append(InsertStable(SubSeq(s, 1, Len(s) - 1), x), s[Len(s)])
         ELSE Append(s, x)

RECURSIVE StableSort(_, _)
StableSort(e, n) ==
    IF n = 0 THEN << >> ELSE InsertStable(StableSort(e, n - 1), e[n])

\* sorted(e, key=...) for the elements in the order e in which the set yields them
sorted(e) ==
    IF SortTypeError(e) THEN [raised |-> "TypeError", val |-> << >>]
    ELSE [raised |-> "None", val |-> StableSort(e, Len(e))]

\* the orders in which iterating over the set S can yield its elements
\* (the order of a set of str depends on the per-process hash seed)
Enumerations(S) ==
    { e \in [1..Cardinality(S) -> S] : \A i, j \in 1..Cardinality(S) : e[i] = e[j] => i = j }

(***************************************************************************)
(* The three id sets of main                                               *)
(***************************************************************************)
\* set(data1.keys()).intersection(set(data2.keys()))
CommonSet(d1, d2) == (DOMAIN d1) \cap (DOMAIN d2)

\* set(data1.keys()), the difference forgotten
OnlyInFirst_all(d1, d2) == DOMAIN d1

\* set(data1.keys()) - set(data2.keys())
OnlyInFirst(d1, d2) == (DOMAIN d1) \ (DOMAIN d2)

\* set(data2.keys()) - set(data1.keys())
OnlyInSecond(d1, d2) == (DOMAIN d2) \ (DOMAIN d1)

(***************************************************************************)
(* The rows of the report                                                  *)
(***************************************************************************)
\* dmp.diff_prettyHtml of the cleaned-up dmp.diff_main(target1, target2): the
\* diff library is not part of the program, its result is kept symbolic
RenderedDiff(target1, target2) == [kind |-> "diff", a |-> target1, b |-> target2]

MissingInFile2 == [kind |-> "Translation unit missing in File 2", a |-> "", b |-> ""]
MissingInFile1 == [kind |-> "Translation unit missing in File 1", a |-> "", b |-> ""]

\* the row appended for a common id
CommonRow(tu_id, d1, d2) ==
    [id |-> tu_id, source |-> d1[tu_id].source, target1 |-> d1[tu_id].target,
     target2 |-> d2[tu_id], diff |-> RenderedDiff(d1[tu_id].target, d2[tu_id])]

\* the row appended for an id missing in file 2
MissingInFile2Row(tu_id, d1) ==
    [id |-> tu_id, source |-> d1[tu_id].source, target1 |-> d1[tu_id].target,
     target2 |-> "", diff |-> MissingInFile2]

\* the row appended for an id missing in file 1
MissingInFile1Row(tu_id, d2) ==
    [id |-> tu_id, source |-> "", target1 |-> "",
     target2 |-> d2[tu_id], diff |-> MissingInFile1]

\* generate_html_template(file1, file2): the head of the report, no row yet
generate_html_template(f1, f2) == [header |-> <<f1, f2>>, rows |-> << >>, footer |-> FALSE]

NoParts == [header |-> << >>, rows |-> << >>, footer |-> FALSE]

\* the output file: absent, or holding what was written to it
NoReport == [exists |-> FALSE, content |-> NoParts]

(***************************************************************************)
(* The command line                                                        *)
(***************************************************************************)
\* the command lines tried: sys.argv of length 1 to 4
FullArgv == <<"compare_xliff.py", "a.xlf", "b.xlf", "out.html">>
ArgvChoices == { SubSeq(FullArgv, 1, n) : n \in 1..Len(FullArgv) }

\* len(sys.argv) < 4
TooFewArguments_4(av) == Len(av) < 4

\* len(sys.argv) < 3
TooFewArguments(av) == Len(av) < 3

\* sys.argv[3] if len(sys.argv) >= 4 else "report.html"
OutputFileOf(av) == IF Len(av) >= 4 THEN av[4] ELSE "report.html"

(***************************************************************************)
(* The program                                                             *)
(***************************************************************************)
NoRet == [data |-> EmptyDict, out |-> {}, failed |-> FALSE]
NoFile == [ok |-> FALSE, units |-> << >>]

Init ==
    /\ pc = "start"
    /\ argv \in ArgvChoices
    /\ file1 = "" /\ file2 = "" /\ output_file = ""
    /\ data1 = EmptyDict /\ data2 = EmptyDict
    /\ unparseable = {}
    /\ common_ids = << >> /\ missing_in_file2 = << >> /\ missing_in_file1 = << >>
    /\ html_parts = NoParts
    /\ stdout = {}
    /\ report = NoReport
    /\ exit_status = "none" /\ exception = "None" /\ caught = "None"
    /\ p_file = NoFile /\ p_include_source = FALSE /\ p_ret = NoRet

\* if __name__ == "__main__": usage and exit(1), or the call of main
CommandLine ==
    /\ pc = "start"
    /\ IF TooFewArguments(argv)
       THEN /\ stdout' = stdout \cup {"Usage"}
            /\ exit_status' = "1"
            /\ pc' = "exited"
            /\ UNCHANGED <<file1, file2, output_file>>
       ELSE /\ file1' = argv[2]
            /\ file2' = argv[3]
            /\ output_file' = OutputFileOf(argv)
            /\ pc' = "main"
            /\ UNCHANGED <<stdout, exit_status>>
    /\ UNCHANGED <<argv, data1, data2, unparseable, common_ids, missing_in_file2,
                   missing_in_file1, html_parts, report, exception, caught,
                   p_file, p_include_source, p_ret>>

\* data1 = parse_xliff(file1, include_source=True), on whatever file1 holds
ParseFile1 ==
    /\ pc = "main"
    /\ \E r \in ParseResults1 :
         /\ data1' = r.data
         /\ stdout' = stdout \cup r.out
         /\ unparseable' = IF r.failed THEN unparseable \cup {file1} ELSE unparseable
    /\ pc' = "parsed1"
    /\ UNCHANGED <<argv, file1, file2, output_file, data2, common_ids, missing_in_file2,
                   missing_in_file1, html_parts, report, exit_status, exception, caught,
                   p_file, p_include_source, p_ret>>

\* data2 = parse_xliff(file2, include_source=False), and the two id listings
ParseFile2 ==
    /\ pc = "parsed1"
    /\ \E r \in ParseResults2 :
         /\ data2' = r.data
         /\ stdout' = debug_print(stdout \cup r.out, "DEBUG: Translation unit IDs")
         /\ unparseable' = IF r.failed THEN unparseable \cup {file2} ELSE unparseable
    /\ pc' = "parsed2"
    /\ UNCHANGED <<argv, file1, file2, output_file, data1, common_ids, missing_in_file2,
                   missing_in_file1, html_parts, report, exit_status, exception, caught,
                   p_file, p_include_source, p_ret>>

\* an uncaught exception out of sorted() ends main and the process
Raise(exc) ==
    /\ pc' = "raised"
    /\ exception' = exc
    /\ exit_status' = "1"

\* common_ids = sorted(...), the template, and the loop over common_ids
CommonRows ==
    /\ pc = "parsed2"
    /\ \E e \in Enumerations(CommonSet(data1, data2)) :
         LET r == sorted(e) IN
         IF r.raised # "None"
         THEN /\ Raise(r.raised)
              /\ UNCHANGED <<common_ids, html_parts, stdout>>
         ELSE /\ common_ids' = r.val
              /\ stdout' = debug_print(stdout, "DEBUG: Common translation unit IDs")
              /\ html_parts' = [generate_html_template(file1, file2) EXCEPT
                                  !.rows = [i \in 1..Len(r.val) |-> CommonRow(r.val[i], data1, data2)]]
              /\ pc' = "common_done"
              /\ UNCHANGED <<exception, exit_status>>
    /\ UNCHANGED <<argv, file1, file2, output_file, data1, data2, unparseable,
                   missing_in_file2, missing_in_file1, report, caught,
                   p_file, p_include_source, p_ret>>

\* missing_in_file2 = sorted(...) and its loop
MissingInFile2Rows ==
    /\ pc = "common_done"
    /\ \E e \in Enumerations(OnlyInFirst(data1, data2)) :
         LET r == sorted(e) IN
         IF r.raised # "None"
         THEN /\ Raise(r.raised)
              /\ UNCHANGED <<missing_in_file2, html_parts>>
         ELSE /\ missing_in_file2' = r.val
              /\ html_parts' = [html_parts EXCEPT
                                  !.rows = @ \o [i \in 1..Len(r.val) |-> MissingInFile2Row(r.val[i], data1)]]
              /\ pc' = "missing2_done"
              /\ UNCHANGED <<exception, exit_status>>
    /\ UNCHANGED <<argv, file1, file2, output_file, data1, data2, unparseable,
                   common_ids, missing_in_file1, stdout, report, caught,
                   p_file, p_include_source, p_ret>>

\* missing_in_file1 = sorted(...), its loop, and the closing tags
MissingInFile1Rows ==
    /\ pc = "missing2_done"
    /\ \E e \in Enumerations(OnlyInSecond(data1, data2)) :
         LET r == sorted(e) IN
         IF r.raised # "None"
         THEN /\ Raise(r.raised)
              /\ UNCHANGED <<missing_in_file1, html_parts>>
         ELSE /\ missing_in_file1' = r.val
              /\ html_parts' = [html_parts EXCEPT
                                  !.rows = @ \o [i \in 1..Len(r.val) |-> MissingInFile1Row(r.val[i], data2)],
                                  !.footer = TRUE]
              /\ pc' = "missing1_done"
              /\ UNCHANGED <<exception, exit_status>>
    /\ UNCHANGED <<argv, file1, file2, output_file, data1, data2, unparseable,
                   common_ids, missing_in_file2, stdout, report, caught,
                   p_file, p_include_source, p_ret>>

\* the print of the success message moved out of the try block
WriteFailed_success(out) == debug_print(out, "ERROR: Could not write to") \cup {"Report generated"}

\* standard output after the except branch of the write
WriteFailed(out) == debug_print(out, "ERROR: Could not write to")

\* standard output after a successful write
WriteSucceeded(out) == out \cup {"Report generated"}

\* the try block: open, write, print; open or write may raise
WriteReport ==
    /\ pc = "missing1_done"
    /\ \E outcome \in {"written", "open raises", "write raises"} :
         /\ report' = CASE outcome = "written" -> [exists |-> TRUE, content |-> html_parts]
                        [] outcome = "open raises" -> report
                        [] outcome = "write raises" -> [exists |-> TRUE, content |-> NoParts]
         /\ caught' = IF outcome = "written" THEN "None" ELSE "OSError"
         /\ stdout' = IF outcome = "written" THEN WriteSucceeded(stdout) ELSE WriteFailed(stdout)
    /\ pc' = "done"
    /\ exit_status' = "0"
    /\ UNCHANGED <<argv, file1, file2, output_file, data1, data2, unparseable,
                   common_ids, missing_in_file2, missing_in_file1, html_parts, exception,
                   p_file, p_include_source, p_ret>>

Next ==
    \/ CommandLine
    \/ ParseFile1
    \/ ParseFile2
    \/ CommonRows
    \/ MissingInFile2Rows
    \/ MissingInFile1Rows
    \/ WriteReport

Spec == Init /\ [][Next]_vars

(***************************************************************************)
(* parse_xliff on its own, on every file                                   *)
(***************************************************************************)
InitParse ==
    /\ pc = "parse_call"
    /\ p_file \in Files
    /\ p_include_source \in BOOLEAN
    /\ p_ret = NoRet
    /\ argv = <<"compare_xliff.py">>
    /\ file1 = "" /\ file2 = "" /\ output_file = ""
    /\ data1 = EmptyDict /\ data2 = EmptyDict
    /\ unparseable = {}
    /\ common_ids = << >> /\ missing_in_file2 = << >> /\ missing_in_file1 = << >>
    /\ html_parts = NoParts
    /\ stdout = {}
    /\ report = NoReport
    /\ exit_status = "none" /\ exception = "None" /\ caught = "None"

ParseCall ==
    /\ pc = "parse_call"
    /\ p_ret' = parse_xliff(p_file, p_include_source)
    /\ stdout' = stdout \cup p_ret'.out
    /\ pc' = "parse_ret"
    /\ UNCHANGED <<argv, file1, file2, output_file, data1, data2, unparseable,
                   common_ids, missing_in_file2, missing_in_file1, html_parts,
                   report, exit_status, exception, caught, p_file, p_include_source>>

NextParse == ParseCall

SpecParse == InitParse /\ [][NextParse]_vars

(***************************************************************************)
(* Properties                                                              *)
(***************************************************************************)
Range(s) == { s[i] : i \in 1..Len(s) }

\* the ids of the rows of the report, in the order of the rows
RowIds == [i \in 1..Len(html_parts.rows) |-> html_parts.rows[i].id]

\* the ids of the rows whose last column is of kind k, in the order of the rows
RowIdsOfKind(k) ==
    LET OfKind(row) == row.diff.kind = k
        sel == SelectSeq(html_parts.rows, OfKind)
    IN  [i \in 1..Len(sel) |-> sel[i].id]

\* the characters after the first are decimal digits, at least one
AllDigitSuffix(x) == Len(x) > 1 /\ \A i \in 2..Len(x) : x[i] \in {"0", "1", "2"}

\* the sequence l of ids with all-digit suffixes ascends by the suffix read as an integer
AscendingByNumber(l) ==
    \A i, j \in 1..Len(l) : i < j => int(Suffix(l[i])) <= int(Suffix(l[j]))

\* the group S holds ids with an all-digit suffix and ids without
Mixed(S) == (\E x \in S : AllDigitSuffix(x)) /\ (\E x \in S : ~AllDigitSuffix(x))

\* in l every id without all-digit suffix stands where the comparison of the
\* full id strings puts it
LexPlaced(l) ==
    \A i, j \in 1..Len(l) :
        (i < j /\ (~AllDigitSuffix(l[i]) \/ ~AllDigitSuffix(l[j]))) => ~StrLess(l[j], l[i])

IsListOf(l, S) == Range(l) = S /\ Len(l) = Cardinality(S)

Ended == pc \in {"done", "raised"}

\* C1: the three id lists main computes are pairwise disjoint; the common ids
\* with the ids only in the first file are the ids of data1, and the common ids
\* with the ids only in the second file are the ids of data2.
C1_Partition ==
    pc \in {"missing1_done", "done"} =>
        LET c == Range(common_ids)
            f == Range(missing_in_file2)
            g == Range(missing_in_file1)
        IN  /\ c \cap f = {} /\ c \cap g = {} /\ f \cap g = {}
            /\ c \cup f = DOMAIN data1
            /\ c \cup g = DOMAIN data2

C1_Witness ==
    /\ pc = "done"
    /\ common_ids # << >> /\ missing_in_file2 # << >> /\ missing_in_file1 # << >>

\* C2: for every pair of loaded documents main builds a report with exactly one
\* row per id of the two documents: a diff row for an id in both, a
\* missing-in-File-2 row for an id only in the first, a missing-in-File-1 row
\* for an id only in the second.
C2_OneRowPerId ==
    Ended =>
        LET rows == html_parts.rows
            U == (DOMAIN data1) \cup (DOMAIN data2)
        IN  /\ Len(rows) = Cardinality(U)
            /\ html_parts.footer
            /\ \A x \in U : \E i \in 1..Len(rows) :
                 /\ rows[i].id = x
                 /\ IF x \in DOMAIN data1 /\ x \in DOMAIN data2
                    THEN /\ rows[i].source = data1[x].source
                         /\ rows[i].target1 = data1[x].target
                         /\ rows[i].target2 = data2[x]
                         /\ rows[i].diff = [kind |-> "diff", a |-> data1[x].target, b |-> data2[x]]
                    ELSE IF x \in DOMAIN data1
                    THEN /\ rows[i].source = data1[x].source
                         /\ rows[i].target1 = data1[x].target
                         /\ rows[i].target2 = ""
                         /\ rows[i].diff.kind = "Translation unit missing in File 2"
                    ELSE /\ rows[i].source = ""
                         /\ rows[i].target1 = ""
                         /\ rows[i].target2 = data2[x]
                         /\ rows[i].diff.kind = "Translation unit missing in File 1"

\* C3: when every id of a group has an all-digit substring after its first
\* character, the rows of the group come in ascending order of that substring
\* read as an integer (t1, t2, t10), and once main has emitted a group its rows
\* are those of the group's ids.
C3_NumericOrder ==
    /\ (\A x \in CommonSet(data1, data2) : AllDigitSuffix(x)) =>
           /\ AscendingByNumber(RowIdsOfKind("diff"))
           /\ pc \in {"common_done", "missing2_done", "missing1_done", "done"} =>
                  IsListOf(RowIdsOfKind("diff"), CommonSet(data1, data2))
    /\ (\A x \in (DOMAIN data1) \ (DOMAIN data2) : AllDigitSuffix(x)) =>
           /\ AscendingByNumber(RowIdsOfKind("Translation unit missing in File 2"))
           /\ pc \in {"missing2_done", "missing1_done", "done"} =>
                  IsListOf(RowIdsOfKind("Translation unit missing in File 2"),
                           (DOMAIN data1) \ (DOMAIN data2))
    /\ (\A x \in (DOMAIN data2) \ (DOMAIN data1) : AllDigitSuffix(x)) =>
           /\ AscendingByNumber(RowIdsOfKind("Translation unit missing in File 1"))
           /\ pc \in {"missing1_done", "done"} =>
                  IsListOf(RowIdsOfKind("Translation unit missing in File 1"),
                           (DOMAIN data2) \ (DOMAIN data1))

C3_Witness ==
    /\ pc = "done"
    /\ RowIds = << <<"t", "1">>, <<"t", "2">>, <<"t", "1", "0">> >>
    /\ common_ids = RowIds

\* C4: when a group mixes ids with an all-digit suffix and ids without, the
\* sort of the group completes, each id without all-digit suffix is placed by
\* the comparison of the full id strings, and the run produces the report.
C4_MixedGroupSorts ==
    (Ended /\ ( \/ Mixed(CommonSet(data1, data2))
                \/ Mixed((DOMAIN data1) \ (DOMAIN data2))
                \/ Mixed((DOMAIN data2) \ (DOMAIN data1)) )) =>
        /\ pc = "done"
        /\ IsListOf(common_ids, CommonSet(data1, data2)) /\ LexPlaced(common_ids)
        /\ IsListOf(missing_in_file2, (DOMAIN data1) \ (DOMAIN data2)) /\ LexPlaced(missing_in_file2)
        /\ IsListOf(missing_in_file1, (DOMAIN data2) \ (DOMAIN data1)) /\ LexPlaced(missing_in_file1)

\* C5: the order of the rows is the same in every run on the same two
\* documents, whatever order the id sets are enumerated in before sorting.
C5_Deterministic ==
    pc = "done" =>
        /\ \A e \in Enumerations(CommonSet(data1, data2)) : sorted(e).val = common_ids
        /\ \A e \in Enumerations((DOMAIN data1) \ (DOMAIN data2)) : sorted(e).val = missing_in_file2
        /\ \A e \in Enumerations((DOMAIN data2) \ (DOMAIN data1)) : sorted(e).val = missing_in_file1

\* C6: for a well-formed document the keys of the mapping parse_xliff returns
\* are exactly the non-empty ids of its units, also when an id occurs on
\* several units and when units without id stand before units with one.
C6_LoadedIds ==
    (pc = "parse_ret" /\ p_file.ok) =>
        /\ ~p_ret.failed
        /\ DOMAIN p_ret.data =
             { p_file.units[i].id : i \in 1..Len(p_file.units) } \ {NoId}

C6_Witness ==
    /\ pc = "parse_ret"
    /\ Len(p_file.units) = 3
    /\ p_file.units[1].id = NoId
    /\ p_file.units[2].id # NoId
    /\ p_file.units[3].id = p_file.units[2].id
    /\ DOMAIN p_ret.data = {p_file.units[2].id}

\* C7: when the parse of an input file fails, its mapping is empty, a
\* diagnostic is printed, and main still writes the report, with exactly one
\* row per id of the other file, marked missing in the file that failed (and
\* no row when both fail).
C7_ParseFailureReport ==
    (Ended /\ unparseable # {} /\ caught = "None") =>
        /\ "ERROR: Could not parse file" \in stdout
        /\ file1 \in unparseable => data1 = EmptyDict
        /\ file2 \in unparseable => data2 = EmptyDict
        /\ pc = "done"
        /\ report.exists
        /\ LET rows == report.content.rows
               U == (DOMAIN data1) \cup (DOMAIN data2)
           IN  /\ Len(rows) = Cardinality(U)
               /\ { rows[i].id : i \in 1..Len(rows) } = U
               /\ \A i \in 1..Len(rows) :
                    rows[i].diff.kind = IF file1 \in unparseable
                                        THEN "Translation unit missing in File 1"
                                        ELSE "Translation unit missing in File 2"

\* C8: when writing the report fails, main prints the write diagnostic through
\* debug_print, does not print 'Report generated', raises nothing and returns
\* normally.
C8_WriteFailure ==
    (pc = "done" /\ caught = "OSError") =>
        /\ "ERROR: Could not write to" \in stdout
        /\ "Report generated" \notin stdout
        /\ exception = "None"
        /\ exit_status = "0"

C8_Witness ==
    /\ pc = "done"
    /\ caught = "OSError"
    /\ html_parts.rows # << >>

\* C9: with fewer than 2 file arguments the program prints the usage message
\* and exits with status 1 without parsing a file or writing a report; with 2
\* or more it calls main on the two paths, with 'report.html' as output path
\* when there is no third argument.
C9_CommandLine ==
    pc # "start" =>
        IF Len(argv) < 3
        THEN /\ pc = "exited"
             /\ exit_status = "1"
             /\ stdout = {"Usage"}
             /\ ~report.exists
             /\ data1 = EmptyDict /\ data2 = EmptyDict
        ELSE /\ pc # "exited"
             /\ "Usage" \notin stdout
             /\ file1 = argv[2] /\ file2 = argv[3]
             /\ output_file = IF Len(argv) = 3 THEN "report.html" ELSE argv[4]
             /\ pc # "main" => "DEBUG: Parsing file" \in stdout

C9_Witness ==
    /\ pc = "exited"
    /\ Len(argv) = 2

====
